---- MODULE Spec2Model ----
(***************************************************************************)
(* A model of package appdb (src/appdb.go): creating, opening and          *)
(* validating an SQLite file whose user_version pragma carries a 32-bit    *)
(* fingerprint of (application name, schema version).                      *)
(*                                                                         *)
(* Numbers.  Integers here stay below 2^31 and a Go uint32 does not, so a  *)
(* uint32 is written as two 16-bit limbs [lo, hi] with value               *)
(* lo + 65536*hi.  The user_version slot of the file is a signed 32-bit    *)
(* integer and is kept as a plain integer.                                 *)
(*                                                                         *)
(* Engine.  The statements are run by SQLite (go-sqlite3).  What the code  *)
(* hands to it is text: "PRAGMA user_version = %d ;" with the uint32 in    *)
(* decimal.  SQLite reads the argument of a header pragma with             *)
(* sqlite3Atoi, which yields 0 for a number above 2147483647.  The text is *)
(* modelled as its decimal digits and the engine as parsing them so.       *)
(***************************************************************************)
EXTENDS Integers, Sequences, FiniteSets, TLC

VARIABLES
    file,       \* what is at dbPath: kind, user_version, tables, rows
    conns,      \* the *sql.DB handles opened so far: conns[h] = [open, foreign_keys]
    returned,   \* the handles a call returned together with a nil error
    regWrites,  \* how many times user_version of the file has been written
    last,       \* the last completed call: arguments, results, what it executed
    origin,     \* the InitAppDB call that created the file, if one did
    fpIn,       \* inputs of the last getUserVersion evaluation <<b0, b1, b2, v>>
    fpOut       \* its result

vars == <<file, conns, returned, regWrites, last, origin, fpIn, fpOut>>

(***************************************************************************)
(* Bounds of the model.                                                    *)
(***************************************************************************)
MaxSchemaLen == 2
MaxHandles == 2
MaxValues == 2
MaxRows == 2

(***************************************************************************)
(* Inputs.  The names are real strings; Sum256 below gives the first three *)
(* bytes of their SHA-256 digests.  "app2111" and "app3586" collide on     *)
(* those three bytes; the digest of "app20315453" starts 00 00 00.         *)
(***************************************************************************)
AppNames == {"alpha", "app2111", "app3586", "app20315453"}
SchemaVersions == {0, 3, 128}
Bytes == {0, 1, 127, 128, 255}

\* A statement is its kind, the table it names and (for the pragma) the
\* decimal digits of its argument.
Stmt(op, table, digits) == [op |-> op, table |-> table, digits |-> digits]
CreateT == Stmt("CREATE TABLE", "t", <<>>)
InvalidSql == Stmt("INVALID SQL", "", <<>>)
Statements == {CreateT, InvalidSql}

SeqsUpTo(S, n) == UNION {[1..k -> S] : k \in 0..n}
Schemas == SeqsUpTo(Statements, MaxSchemaLen)
Values == {"a", "b"}
ValueSeqs == SeqsUpTo(Values, MaxValues)

(***************************************************************************)
(* Errors.                                                                 *)
(***************************************************************************)
Nil == [kind |-> "nil"]
ErrNotExist == [kind |-> "ErrNotExist"]
ErrInvalid == [kind |-> "ErrInvalid"]
ErrFs == [kind |-> "FilesystemError"]
EngineErr(msg) == [kind |-> "EngineError", msg |-> msg]
SchemaVersionError(v, e) == [kind |-> "SchemaVersionError", Version |-> v, ExpectedVersion |-> e]
AppIdError(id, e) == [kind |-> "AppIdError", Id |-> id, ExpectedId |-> e]
SchemaError(s, e) == [kind |-> "SchemaError", Statement |-> s, Err |-> e]

(***************************************************************************)
(* uint32 arithmetic on limbs.                                             *)
(***************************************************************************)
U32(lo, hi) == [lo |-> lo, hi |-> hi]

\* the bytes taken most significant first
LittleEndianUint32BE(s) == U32(s[4] + 256 * s[3], s[2] + 256 * s[1])
\* binary.LittleEndian.Uint32(s): s[1] | s[2]<<8 | s[3]<<16 | s[4]<<24
LittleEndianUint32(s) == U32(s[1] + 256 * s[2], s[3] + 256 * s[4])

\* x & 0x00ffffff
AndLow24(x) == U32(x.lo, x.hi % 256)
\* uint8(x >> 24)
Shr24(x) == (x.hi \div 256) % 256

\* sha256.Sum256([]byte(appName)), first three bytes
Sum256(appName) ==
    CASE appName = "alpha" -> <<142, 211, 246>>
      [] appName = "app2111" -> <<133, 48, 154>>
      [] appName = "app3586" -> <<133, 48, 154>>
      [] appName = "app20315453" -> <<0, 0, 0>>

UserVersionOfSum(sum, schemaVersion) ==
    LittleEndianUint32(<<sum[1], sum[2], sum[3], schemaVersion>>)

getUserVersion(appName, schemaVersion) ==
    UserVersionOfSum(Sum256(appName), schemaVersion)


\* fmt.Sprintf("%d", u): the decimal digits of a uint32, most significant first
RECURSIVE FormatUint32(_)
FormatUint32(u) ==
    IF u.hi = 0 /\ u.lo < 10
    THEN <<u.lo>>
    ELSE LET t == (u.hi % 10) * 65536 + u.lo
         IN  Append(FormatUint32(U32(t \div 10, u.hi \div 10)), t % 10)

(***************************************************************************)
(* The engine: how SQLite reads the argument of PRAGMA user_version = N.   *)
(* sqlite3GetInt32 skips leading zeros, accumulates at most 11 digits in a *)
(* 64-bit integer and fails when more than 10 digits remain or the value   *)
(* exceeds 2147483647; sqlite3Atoi returns 0 when it fails.  The           *)
(* accumulator saturates here instead of growing past 32 bits.             *)
(***************************************************************************)
RECURSIVE StripZeros(_)
StripZeros(d) == IF Len(d) > 0 /\ d[1] = 0 THEN StripZeros(Tail(d)) ELSE d

RECURSIVE Accumulate(_, _, _)
Accumulate(d, v, over) ==
    IF d = <<>>
    THEN [v |-> v, over |-> over]
    ELSE LET o == over \/ v > 214748364 \/ (v = 214748364 /\ d[1] > 7)
         IN  Accumulate(Tail(d), IF o THEN v ELSE v * 10 + d[1], o)

sqlite3Atoi(digits) ==
    LET d == StripZeros(digits)
        a == Accumulate(d, 0, FALSE)
    IN  IF Len(d) > 10 \/ a.over THEN 0 ELSE a.v

\* rows.Scan(&user_version) into a uint32, for a stored value >= 0
ScanUint32(n) == U32(n % 65536, n \div 65536)

(***************************************************************************)
(* The file at dbPath and the handles.                                     *)
(***************************************************************************)
Absent == [kind |-> "absent", user_version |-> 0, tables |-> {}, rows |-> <<>>]
Directory == [kind |-> "dir", user_version |-> 0, tables |-> {}, rows |-> <<>>]
\* a regular file that is not an SQLite database
Garbage == [kind |-> "garbage", user_version |-> 0, tables |-> {}, rows |-> <<>>]
\* os.Create: a regular file of length 0, which SQLite opens as an empty database
EmptyFile == [kind |-> "db", user_version |-> 0, tables |-> {}, rows |-> <<>>]

IsRegular(f) == f.kind \in {"db", "garbage"}

NewConn == [open |-> TRUE, foreign_keys |-> FALSE]
OpenHandles == {h \in 1..Len(conns) : conns[h].open}

(***************************************************************************)
(* ExecSqlStatement (src/appdb.go 125-136): Prepare, defer Close, Exec.    *)
(* fault: the engine fails this statement with an I/O error.               *)
(* Result: the file and the connection afterwards, the error, and whether  *)
(* user_version was written.                                               *)
(***************************************************************************)
ExecResult(f, c, err, wrote) == [file |-> f, conn |-> c, err |-> err, wrote |-> wrote]

ExecSqlStatement(f, c, stmt, fault) ==
    IF f.kind # "db" THEN ExecResult(f, c, EngineErr("file is not a database"), 0)
    ELSE IF stmt.op = "INVALID SQL" THEN ExecResult(f, c, EngineErr("syntax error"), 0)
    ELSE IF stmt.op = "CREATE TABLE" /\ stmt.table \in f.tables
    THEN ExecResult(f, c, EngineErr("table already exists"), 0)
    ELSE IF fault THEN ExecResult(f, c, EngineErr("disk I/O error"), 0)
    ELSE IF stmt.op = "PRAGMA user_version"
    THEN ExecResult([f EXCEPT !.user_version = sqlite3Atoi(stmt.digits)], c, Nil, 1)
    ELSE IF stmt.op = "PRAGMA foreign_keys"
    THEN ExecResult(f, [c EXCEPT !.foreign_keys = TRUE], Nil, 0)
    ELSE ExecResult([f EXCEPT !.tables = @ \cup {stmt.table}], c, Nil, 0)

(***************************************************************************)
(* initSchema (src/appdb.go 166-178).                                      *)
(***************************************************************************)
PragmaUserVersion(uv) == Stmt("PRAGMA user_version", "", FormatUint32(uv))
PragmaForeignKeys == Stmt("PRAGMA foreign_keys", "", <<>>)

\* s = append(s, "PRAGMA user_version = %d ;", "PRAGMA foreign_keys = ON;"); s = append(s, schema...)
SchemaStatements(appName, schemaVersion, schema) ==
    <<PragmaUserVersion(getUserVersion(appName, schemaVersion)), PragmaForeignKeys>> \o schema

SchemaResult(f, c, err, log, writes) ==
    [file |-> f, conn |-> c, err |-> err, log |-> log, writes |-> writes]

\* the loop over s, from index i; log: the statements handed to ExecSqlStatement
RECURSIVE RunSchema(_, _, _, _, _, _, _)
RunSchema(f, c, s, i, faultAt, log, writes) ==
    IF i > Len(s)
    THEN SchemaResult(f, c, Nil, log, writes)
    ELSE CHOOSE res \in
             {IF r.err # Nil
              THEN SchemaResult(r.file, r.conn, SchemaError(s[i], r.err), Append(log, s[i]), writes)
              ELSE RunSchema(r.file, r.conn, s, i + 1, faultAt, Append(log, s[i]), writes + r.wrote)
                : r \in {ExecSqlStatement(f, c, s[i], faultAt = i)}} : TRUE

\* a loop that records the first error and goes on
RECURSIVE RunSchemaOn(_, _, _, _, _, _, _, _)
RunSchemaOn(f, c, s, i, faultAt, log, writes, err) ==
    IF i > Len(s)
    THEN SchemaResult(f, c, err, log, writes)
    ELSE CHOOSE res \in
             {RunSchemaOn(r.file, r.conn, s, i + 1, faultAt, Append(log, s[i]), writes + r.wrote,
                          IF err = Nil /\ r.err # Nil THEN SchemaError(s[i], r.err) ELSE err)
                : r \in {ExecSqlStatement(f, c, s[i], faultAt = i)}} : TRUE

initSchemaNoStop(f, c, appName, schemaVersion, schema, faultAt) ==
    RunSchemaOn(f, c, SchemaStatements(appName, schemaVersion, schema), 1, faultAt, <<>>, 0, Nil)

initSchema(f, c, appName, schemaVersion, schema, faultAt) ==
    RunSchema(f, c, SchemaStatements(appName, schemaVersion, schema), 1, faultAt, <<>>, 0)


(***************************************************************************)
(* openAppDBNoValidate (src/appdb.go 90-105).  cs: the handles so far.     *)
(* sql.Open does not touch the file, so it succeeds on any regular file.   *)
(***************************************************************************)
OpenResult(cs, db, err) == [conns |-> cs, db |-> db, err |-> err]

openAppDBNoValidate(f, cs) ==
    IF f.kind = "absent" THEN OpenResult(cs, 0, ErrNotExist)
    ELSE IF IsRegular(f) THEN OpenResult(Append(cs, NewConn), Len(cs) + 1, Nil)
    ELSE OpenResult(cs, 0, ErrInvalid)

(***************************************************************************)
(* validateDB (src/appdb.go 183-209).                                      *)
(***************************************************************************)
\* a validation that takes a user_version of 0 for a database not yet initialized
validateDBLenient(f, appName, schemaVersion) ==
    LET uv == getUserVersion(appName, schemaVersion)
        user_version == ScanUint32(f.user_version)
    IN  IF f.kind # "db" THEN EngineErr("file is not a database")
        ELSE IF uv # user_version /\ f.user_version # 0
        THEN IF AndLow24(user_version) # AndLow24(uv)
             THEN AppIdError(AndLow24(user_version), AndLow24(uv))
             ELSE SchemaVersionError(Shr24(user_version), Shr24(uv))
        ELSE Nil

validateDB(f, appName, schemaVersion) ==
    LET uv == getUserVersion(appName, schemaVersion)
        user_version == ScanUint32(f.user_version)
        dbAppId == AndLow24(user_version)
        expectedId == AndLow24(uv)
        dbSchemaVers == Shr24(user_version)
        expectedSchemaVers == Shr24(uv)
    IN  IF f.kind # "db" THEN EngineErr("file is not a database")
        ELSE IF uv # user_version
        THEN IF dbAppId # expectedId
             THEN AppIdError(dbAppId, expectedId)
             ELSE IF dbSchemaVers # expectedSchemaVers
             THEN SchemaVersionError(dbSchemaVers, expectedSchemaVers)
             ELSE Nil
        ELSE Nil

(***************************************************************************)
(* OpenAppDB (src/appdb.go 111-122).                                       *)
(***************************************************************************)
Close(cs, db) == [cs EXCEPT ![db].open = FALSE]

\* an OpenAppDB that returns the validation error without db.Close()
OpenAppDBNoClose(f, cs, appName, schemaVersion) ==
    LET o == openAppDBNoValidate(f, cs)
        err == validateDB(f, appName, schemaVersion)
    IN  IF o.err # Nil THEN OpenResult(cs, 0, o.err)
        ELSE IF err # Nil THEN OpenResult(o.conns, 0, err)
        ELSE o

OpenAppDB(f, cs, appName, schemaVersion) ==
    LET o == openAppDBNoValidate(f, cs)
        err == validateDB(f, appName, schemaVersion)
    IN  IF o.err # Nil THEN OpenResult(cs, 0, o.err)
        ELSE IF err # Nil THEN OpenResult(Close(o.conns, o.db), 0, err)
        ELSE o

(***************************************************************************)
(* InitAppDB (src/appdb.go 61-87).  env: what the filesystem does to       *)
(* MkdirAll and Create.  faultAt: the statement of initSchema the engine   *)
(* fails with an I/O error (0: none).                                      *)
(* Result: the file and handles afterwards, the returned (db, err), and for *)
(* the record of the call: whether the file was created, what initSchema   *)
(* returned, the statements it executed, the writes of user_version.       *)
(***************************************************************************)
InitResult(f, cs, db, err, created, initErr, log, writes) ==
    [file |-> f, conns |-> cs, db |-> db, err |-> err, created |-> created,
     initErr |-> initErr, log |-> log, writes |-> writes]

\* an InitAppDB that runs initSchema whether or not the file existed
InitAppDBAlwaysInit(f, cs, appName, schemaVersion, schema, env, faultAt) ==
    LET f1 == IF f.kind = "absent" THEN EmptyFile ELSE f
        o == openAppDBNoValidate(f1, cs)
        r == initSchema(f1, o.conns[o.db], appName, schemaVersion, schema, faultAt)
    IN  IF o.err # Nil
        THEN InitResult(f1, cs, 0, o.err, f.kind = "absent", Nil, <<>>, 0)
        ELSE InitResult(r.file, [o.conns EXCEPT ![o.db] = r.conn], o.db, Nil,
                        f.kind = "absent", r.err, r.log, r.writes)

InitAppDB(f, cs, appName, schemaVersion, schema, env, faultAt) ==
    IF f.kind = "absent"
    THEN IF env = "mkdirFail" THEN InitResult(f, cs, 0, ErrFs, FALSE, Nil, <<>>, 0)
         ELSE IF env = "createFail" THEN InitResult(f, cs, 0, ErrFs, FALSE, Nil, <<>>, 0)
         ELSE LET o == openAppDBNoValidate(EmptyFile, cs)
                  r == initSchema(EmptyFile, o.conns[o.db], appName, schemaVersion, schema, faultAt)
              IN  IF o.err # Nil
                  THEN InitResult(EmptyFile, cs, 0, o.err, TRUE, Nil, <<>>, 0)
                  ELSE InitResult(r.file, [o.conns EXCEPT ![o.db] = r.conn], o.db, Nil,
                                  TRUE, r.err, r.log, r.writes)
    ELSE LET o == OpenAppDB(f, cs, appName, schemaVersion)
         IN  InitResult(f, o.conns, o.db, o.err, FALSE, Nil, <<>>, 0)

(***************************************************************************)
(* ExecBulkSql (src/appdb.go 139-153): Prepare once, defer Close, Exec     *)
(* once per value.  failAt: the index of the value whose Exec the engine   *)
(* fails (0: none).                                                        *)
(* Result: the file, the error, the number of Prepare calls, the values    *)
(* handed to Exec in order, whether the statement is still open on return. *)
(***************************************************************************)
BulkResult(f, err, prepares, execs, stmtOpen) ==
    [file |-> f, err |-> err, prepares |-> prepares, execs |-> execs, stmtOpen |-> stmtOpen]

RECURSIVE BulkLoop(_, _, _, _, _)
BulkLoop(f, values, v, failAt, execs) ==
    IF v > Len(values)
    THEN BulkResult(f, Nil, 1, execs, FALSE)
    ELSE IF failAt = v
    THEN BulkResult(f, EngineErr("disk I/O error"), 1, Append(execs, values[v]), FALSE)
    ELSE BulkLoop([f EXCEPT !.rows = Append(@, values[v])], values, v + 1, failAt,
                  Append(execs, values[v]))

\* a loop that drops the error of a failed Exec and goes on
RECURSIVE BulkLoopOn(_, _, _, _, _)
BulkLoopOn(f, values, v, failAt, execs) ==
    IF v > Len(values)
    THEN BulkResult(f, Nil, 1, execs, FALSE)
    ELSE BulkLoopOn(IF failAt = v THEN f ELSE [f EXCEPT !.rows = Append(@, values[v])],
                    values, v + 1, failAt, Append(execs, values[v]))

ExecBulkSqlNoStop(f, values, failAt) ==
    IF f.kind # "db" THEN BulkResult(f, EngineErr("file is not a database"), 1, <<>>, FALSE)
    ELSE IF "t" \notin f.tables THEN BulkResult(f, EngineErr("no such table"), 1, <<>>, FALSE)
    ELSE BulkLoopOn(f, values, 1, failAt, <<>>)

\* sql is "INSERT INTO t VALUES(?)"
ExecBulkSql(f, values, failAt) ==
    IF f.kind # "db" THEN BulkResult(f, EngineErr("file is not a database"), 1, <<>>, FALSE)
    ELSE IF "t" \notin f.tables THEN BulkResult(f, EngineErr("no such table"), 1, <<>>, FALSE)
    ELSE BulkLoop(f, values, 1, failAt, <<>>)

(***************************************************************************)
(* The record of a call.                                                   *)
(***************************************************************************)
Call(op, appName, schemaVersion, schema, db, err, pre) ==
    [op |-> op, appName |-> appName, schemaVersion |-> schemaVersion, schema |-> schema,
     db |-> db, err |-> err, pre |-> pre, conn |-> 0,
     created |-> FALSE, initErr |-> Nil, log |-> <<>>, writes |-> 0,
     values |-> <<>>, failAt |-> 0, prepares |-> 0, execs |-> <<>>, stmtOpen |-> FALSE]

NoCall == Call("none", "", 0, <<>>, 0, Nil, Absent)

Origin(appName, schemaVersion, initErr) ==
    [set |-> TRUE, appName |-> appName, schemaVersion |-> schemaVersion, initErr |-> initErr]
NoOrigin == [set |-> FALSE, appName |-> "", schemaVersion |-> 0, initErr |-> Nil]

Init ==
    /\ file \in {Absent, Directory, Garbage, EmptyFile}
    /\ conns = <<>>
    /\ returned = {}
    /\ regWrites = 0
    /\ last = NoCall
    /\ origin = NoOrigin
    /\ fpIn = <<0, 0, 0, 0>>
    /\ fpOut = UserVersionOfSum(<<0, 0, 0>>, 0)

(***************************************************************************)
(* The calls a program makes.                                              *)
(***************************************************************************)
CallInitAppDB ==
    /\ Len(conns) < MaxHandles
    /\ \E appName \in AppNames, schemaVersion \in SchemaVersions, schema \in Schemas :
       \E env \in IF file.kind = "absent" THEN {"ok", "mkdirFail", "createFail"} ELSE {"ok"} :
       \E faultAt \in IF file.kind = "absent" /\ env = "ok" THEN 0..(Len(schema) + 2) ELSE {0} :
          \E r \in {InitAppDB(file, conns, appName, schemaVersion, schema, env, faultAt)} :
              /\ file' = r.file
              /\ conns' = r.conns
              /\ returned' = IF r.err = Nil THEN returned \cup {r.db} ELSE returned
              /\ regWrites' = regWrites + r.writes
              /\ last' = [Call("InitAppDB", appName, schemaVersion, schema, r.db, r.err, file)
                            EXCEPT !.created = r.created, !.initErr = r.initErr,
                                   !.log = r.log, !.writes = r.writes, !.failAt = faultAt]
              /\ origin' = IF r.created THEN Origin(appName, schemaVersion, r.initErr) ELSE origin
    /\ UNCHANGED <<fpIn, fpOut>>

CallOpenAppDB ==
    /\ Len(conns) < MaxHandles
    /\ \E appName \in AppNames, schemaVersion \in SchemaVersions :
        /\ \E r \in {OpenAppDB(file, conns, appName, schemaVersion)} :
               /\ conns' = r.conns
               /\ returned' = IF r.err = Nil THEN returned \cup {r.db} ELSE returned
               /\ last' = Call("OpenAppDB", appName, schemaVersion, <<>>, r.db, r.err, file)
        /\ UNCHANGED <<file, regWrites, origin, fpIn, fpOut>>

CallExecSqlStatement ==
    \E db \in OpenHandles, stmt \in Statements, fault \in BOOLEAN :
        /\ \E r \in {ExecSqlStatement(file, conns[db], stmt, fault)} :
               /\ file' = r.file
               /\ conns' = [conns EXCEPT ![db] = r.conn]
               /\ regWrites' = regWrites + r.wrote
               /\ last' = [Call("ExecSqlStatement", "", 0, <<stmt>>, 0, r.err, file)
                             EXCEPT !.conn = db, !.writes = r.wrote]
        /\ UNCHANGED <<returned, origin, fpIn, fpOut>>

CallExecBulkSql ==
    \E db \in OpenHandles, values \in ValueSeqs, failAt \in 0..MaxValues :
        /\ failAt <= Len(values)
        /\ Len(file.rows) + Len(values) <= MaxRows
        /\ \E r \in {ExecBulkSql(file, values, failAt)} :
               /\ file' = r.file
               /\ last' = [Call("ExecBulkSql", "", 0, <<>>, 0, r.err, file)
                             EXCEPT !.conn = db, !.values = values, !.failAt = failAt,
                                    !.prepares = r.prepares, !.execs = r.execs,
                                    !.stmtOpen = r.stmtOpen]
        /\ UNCHANGED <<conns, returned, regWrites, origin, fpIn, fpOut>>

Next ==
    \/ CallInitAppDB
    \/ CallOpenAppDB

Spec == Init /\ [][Next]_vars

(***************************************************************************)
(* The statement helpers on their own, on a handle that InitAppDB returned *)
(* for a new file.                                                         *)
(***************************************************************************)
InitHelpers ==
    \E appName \in AppNames, schemaVersion \in SchemaVersions, schema \in Schemas :
    \E r \in {InitAppDB(Absent, <<>>, appName, schemaVersion, schema, "ok", 0)} :
        /\ file = r.file
        /\ conns = r.conns
        /\ returned = {r.db}
        /\ regWrites = r.writes
        /\ last = [Call("InitAppDB", appName, schemaVersion, schema, r.db, r.err, Absent)
                     EXCEPT !.created = r.created, !.initErr = r.initErr, !.log = r.log,
                            !.writes = r.writes]
        /\ origin = Origin(appName, schemaVersion, r.initErr)
        /\ fpIn = <<0, 0, 0, 0>>
        /\ fpOut = UserVersionOfSum(<<0, 0, 0>>, 0)

NextHelpers ==
    \/ CallExecSqlStatement
    \/ CallExecBulkSql

SpecHelpers == InitHelpers /\ [][NextHelpers]_vars

(***************************************************************************)
(* getUserVersion on its own: every digest prefix and every version drawn  *)
(* from Bytes.                                                             *)
(***************************************************************************)
CallGetUserVersion ==
    \E b0 \in Bytes, b1 \in Bytes, b2 \in Bytes, v \in Bytes :
        /\ fpIn' = <<b0, b1, b2, v>>
        /\ fpOut' = UserVersionOfSum(<<b0, b1, b2>>, v)
        /\ UNCHANGED <<file, conns, returned, regWrites, last, origin>>

NextFingerprint == CallGetUserVersion

SpecFingerprint == Init /\ [][NextFingerprint]_vars


(***************************************************************************)
(* The claims.                                                             *)
(***************************************************************************)
IsPrefix(p, q) == Len(p) <= Len(q) /\ SubSeq(q, 1, Len(p)) = p

\* the last call was an InitAppDB that created the file
Created == last.op = "InitAppDB" /\ last.created
\* ... and every statement of initSchema succeeded
CreatedClean == Created /\ last.initErr = Nil
\* the last call was an OpenAppDB, or an InitAppDB that found something at dbPath
Validating ==
    \/ last.op = "OpenAppDB"
    \/ last.op = "InitAppDB" /\ last.pre.kind # "absent"
\* the uint32 the last call expected
Expected == getUserVersion(last.appName, last.schemaVersion)
\* the file was created by an InitAppDB whose statements all succeeded
CleanOrigin == origin.set /\ origin.initErr = Nil
Mismatch(err) == err.kind \in {"AppIdError", "SchemaVersionError"}

\* C1: after an InitAppDB that created the file and whose statements all
\* succeeded, the user_version of the file is the fingerprint of (appName,
\* schemaVersion), for every schemaVersion, and an OpenAppDB with the same
\* arguments made next returns an open handle and no error.
C1_RoundTrip ==
    CreatedClean =>
        /\ ScanUint32(file.user_version) = Expected
        /\ LET o == OpenAppDB(file, conns, last.appName, last.schemaVersion)
           IN  o.err = Nil /\ o.db # 0 /\ o.conns[o.db].open

\* C2: when InitAppDB creates the file and a statement of initSchema fails,
\* InitAppDB returns the SchemaError carrying the failing statement and the
\* engine's error, and what the statements before it did persists.
C2_SchemaErrorReturned ==
    (Created /\ last.initErr # Nil) =>
        /\ last.err = last.initErr
        /\ last.err.kind = "SchemaError"
        /\ last.err.Statement = last.log[Len(last.log)]

\* C3: a file initialized with (appName, v1) and validated with the same
\* appName and another schemaVersion v2 yields SchemaVersionError{v1, v2} and
\* no handle.
C3_VersionMismatch ==
    (/\ Validating
     /\ CleanOrigin
     /\ last.appName = origin.appName
     /\ last.schemaVersion # origin.schemaVersion) =>
        /\ last.err.kind = "SchemaVersionError"
        /\ last.err.Version = origin.schemaVersion
        /\ last.err.ExpectedVersion = last.schemaVersion
        /\ last.db = 0

\* C4: validation returns AppIdError, with the stored and the expected 24-bit
\* identifiers, whenever they differ, and SchemaVersionError only when they are
\* equal; in particular a file initialized with one appName and validated with
\* an appName of another identifier and the same schemaVersion yields
\* AppIdError.
C4_IdentityFirst ==
    /\ (Validating /\ last.pre.kind = "db") =>
          LET stored == ScanUint32(last.pre.user_version)
          IN  /\ AndLow24(stored) # AndLow24(Expected) =>
                    /\ last.err.kind = "AppIdError"
                    /\ last.err.Id = AndLow24(stored)
                    /\ last.err.ExpectedId = AndLow24(Expected)
              /\ last.err.kind = "SchemaVersionError" => AndLow24(stored) = AndLow24(Expected)
    /\ (/\ Validating
        /\ CleanOrigin
        /\ Sum256(last.appName) # Sum256(origin.appName)
        /\ last.schemaVersion = origin.schemaVersion) =>
          last.err.kind = "AppIdError"

\* C5: a call that returns an error returns no handle and leaves no handle it
\* opened open: the open handles are exactly those returned with a nil error.
C5_NoLeakedHandle ==
    /\ OpenHandles = returned
    /\ last.err # Nil => last.db = 0
    /\ last.err = Nil /\ last.op \in {"InitAppDB", "OpenAppDB"} => last.db \in OpenHandles

C5_Witness ==
    /\ Validating
    /\ Mismatch(last.err)
    /\ Len(conns) = 2
    /\ conns[1].open
    /\ ~conns[2].open

\* C6: for digest bytes b0, b1, b2 and schema version v the result of
\* getUserVersion has the value b0 + 256*b1 + 65536*b2 + 16777216*v, that is
\* low limb b0 + 256*b1 and high limb b2 + 256*v, and the decomposition of
\* validateDB recovers the identifier b0 + 256*b1 + 65536*b2 and v.
C6_Packing ==
    LET b0 == fpIn[1]
        b1 == fpIn[2]
        b2 == fpIn[3]
        v == fpIn[4]
    IN  /\ fpOut.lo = b0 + 256 * b1
        /\ fpOut.hi = b2 + 256 * v
        /\ AndLow24(fpOut).lo + 65536 * AndLow24(fpOut).hi = b0 + 256 * b1 + 65536 * b2
        /\ Shr24(fpOut) = v

C6_Witness == fpIn = <<1, 128, 255, 255>> /\ fpOut = U32(32769, 65535)

\* C7: a call of InitAppDB or OpenAppDB that finds something at dbPath runs no
\* statement of initSchema and leaves the file as it was; user_version is
\* written at most once, and only by the call that created the file.
C7_NoReinit ==
    /\ Validating => file = last.pre /\ last.log = <<>> /\ last.writes = 0
    /\ regWrites <= 1
    /\ last.writes > 0 => Created

C7_Witness ==
    /\ last.op = "InitAppDB"
    /\ last.pre.kind = "db"
    /\ regWrites = 1
    /\ Len(last.schema) = 2
    /\ Mismatch(last.err)

\* C8: initSchema hands its statements to the engine in the order: PRAGMA
\* user_version with the fingerprint, PRAGMA foreign_keys, the caller's
\* statements as given; it stops at the first that fails, whose error it
\* returns, and undoes nothing: the tables of the statements before it exist
\* and user_version was written before any caller statement ran.
C8_Order ==
    Created =>
        LET all == <<PragmaUserVersion(Expected), PragmaForeignKeys>> \o last.schema
            n == Len(last.log)
        IN  /\ IsPrefix(last.log, all)
            /\ last.initErr = Nil => last.log = all
            /\ last.initErr # Nil =>
                  /\ last.initErr.kind = "SchemaError"
                  /\ last.initErr.Statement = all[n]
                  /\ \A k \in 1..(n - 1) : all[k] # InvalidSql
            /\ \A k \in 1..(IF last.initErr = Nil THEN n ELSE n - 1) :
                  all[k].op = "CREATE TABLE" => all[k].table \in file.tables
            /\ n > 1 => last.writes = 1 /\ file.user_version = sqlite3Atoi(all[1].digits)
            /\ n > 2 \/ (n = 2 /\ last.initErr = Nil) => conns[last.db].foreign_keys

\* the first caller statement fails and the second, a CREATE TABLE, is not run
C8_Witness ==
    /\ Created
    /\ last.schema = <<InvalidSql, CreateT>>
    /\ Len(last.log) = 3
    /\ last.initErr # Nil
    /\ last.writes = 1
    /\ "t" \notin file.tables

\* C9: ExecBulkSql prepares once and executes once per value in index order;
\* a failing execution ends it with that error and nothing after it is
\* executed; with no failure, and with no value at all, it returns nil.
C9_Bulk ==
    last.op = "ExecBulkSql" =>
        /\ last.prepares = 1
        /\ ~last.stmtOpen
        /\ IsPrefix(last.execs, last.values)
        /\ "t" \in last.pre.tables =>
              /\ last.failAt = 0 =>
                    /\ last.err = Nil
                    /\ last.execs = last.values
                    /\ file.rows = last.pre.rows \o last.values
              /\ last.failAt > 0 =>
                    /\ last.err # Nil
                    /\ last.execs = SubSeq(last.values, 1, last.failAt)
                    /\ file.rows = last.pre.rows \o SubSeq(last.values, 1, last.failAt - 1)
        /\ "t" \notin last.pre.tables => last.err # Nil /\ last.execs = <<>> /\ file = last.pre

C9_Witness ==
    /\ last.op = "ExecBulkSql"
    /\ last.values = <<"a", "b">>
    /\ last.failAt = 1
    /\ last.execs = <<"a">>
    /\ file.rows = last.pre.rows

\* C10: when dbPath holds a database whose user_version is 0, an InitAppDB
\* expecting a non-zero fingerprint returns a mismatch error and no handle,
\* runs no statement and leaves user_version 0.
C10_NoRetry ==
    (/\ last.op = "InitAppDB"
     /\ last.pre.kind = "db"
     /\ last.pre.user_version = 0
     /\ Expected # U32(0, 0)) =>
        /\ Mismatch(last.err)
        /\ last.db = 0
        /\ ~last.created
        /\ last.log = <<>>
        /\ file.user_version = 0

\* the file was left by an InitAppDB whose first statement failed
C10_Witness ==
    /\ last.op = "InitAppDB"
    /\ origin.set
    /\ origin.initErr # Nil
    /\ regWrites = 0
    /\ last.pre.kind = "db"
    /\ last.err.kind = "SchemaVersionError"

====
